---- MODULE Spec2Model ----
(***************************************************************************)
(* A model of main.py: the run_node scheduler loop with its two deadlines, *)
(* the per-account heartbeat (get_ip, send_heartbeat) and the per-account  *)
(* test cycle (start_testing, test_all_nodes, report_all_node_results,     *)
(* fetch_points).  Time is counted in whole seconds.                       *)
(***************************************************************************)
EXTENDS Integers, Sequences, FiniteSets, TLC

\* ---- bounds of the model
MaxAccounts == 2
MaxNodes == 2
MaxTime == 1810
MaxJitter == 1
MaxProxies == 2
MaxProxyTime == 10
MaxLines == 3
MaxLineLen == 3
MaxLag == 1

\* ---- constants of the program
HEARTBEAT_INTERVAL == 300
TEST_INTERVAL == 30 * 60
RETRY_DELAY == 5
TIMEOUT == 5
SLEEP == 1

None == "None"
NoExc == "none"
NoProxy == 0
NoRound == -1

VARIABLES
    now,                  \* the wall clock read by datetime.now()
    pc,                   \* position of the run_node coroutine
    tokens,               \* the tokens of token_email_mapping, in insertion order
    next_heartbeat_time,
    next_test_time,
    current_time,
    first_heartbeat,
    i,                    \* index of the enumerate() loop in progress
    ip,                   \* send_heartbeat's local ip
    nodes,                \* start_testing's local nodes
    probe,                \* the test_single_node tasks of the gather in progress
    results,              \* start_testing's local results
    k,                    \* position of report_all_node_results in results
    orphans,              \* per account: probe tasks still running after their gather raised
    orphan_expiry,        \* time by which the timeouts of those probes have fired
    slept,                \* the loop has reached asyncio.sleep(1) at least once
    hb_round,             \* this tick found the heartbeat deadline due
    test_round,           \* this tick found the test deadline due
    prev_heartbeat_time,  \* value of next_heartbeat_time before its last update
    prev_test_time,       \* value of next_test_time before its last update
    failed_at,            \* this tick: first account one of whose requests failed, or 0
    hb_calls,             \* per account, this tick: send_heartbeat invoked
    hb_returns,           \* per account, this tick: send_heartbeat returned
    test_calls,           \* per account, this tick: start_testing invoked
    test_returns,         \* per account, this tick: fetch_points returned
    nodes_fetch,          \* latest test cycle: "none", "ok" or "failed"
    probes_started,       \* latest test cycle: probe requests started
    reports_sent,         \* latest test cycle: /test POSTs that have returned
    report_failed,        \* latest test cycle: a /test POST failed
    reports_in_flight,    \* /test POSTs sent and not yet returned
    posted,               \* the results reported so far by the report loop in progress
    points_fetched,       \* latest test cycle: fetch_points calls
    token_file,           \* token.txt: whether it exists, and its lines
    token_email_mapping,  \* the dict of run_node: (token, email) pairs in insertion order
    proxies,              \* the list load_proxies returned
    proxy,                \* run_node's local proxy
    used,                 \* the proxies of the requests made by the task in progress
    hb_got,               \* latest send_heartbeat: what get_ip returned
    hb_sent,              \* latest send_heartbeat: the ip of each POST made
    score,                \* latest test cycle: what fetch_points returned
    displayed,            \* latest test cycle: score lines printed
    probe_status,         \* per probe of the gather in progress: status answered, 0 for none
    completed,            \* the probes of the gather in progress, in their order of completion
    reordered,            \* the probes of the report loop in progress did not complete in list order
    last_heartbeat_start, \* the time the latest heartbeat round started at
    last_test_tick,       \* current_time of the latest tick that ran the test round
    last_test_lag         \* the seconds, up to MaxLag, between that current_time and the start of the round

sched == <<now, pc, tokens, next_heartbeat_time, next_test_time, current_time,
           first_heartbeat, i, slept, hb_round, test_round,
           prev_heartbeat_time, prev_test_time, failed_at>>
hbvars == <<ip, hb_calls, hb_returns>>
cyclevars == <<nodes, probe, results, k, orphans, orphan_expiry>>
testlog == <<test_calls, test_returns, nodes_fetch, probes_started, reports_sent,
             report_failed, reports_in_flight, posted, points_fetched>>
config == <<token_file, token_email_mapping, proxies>>
routing == <<proxy, used>>
hblog == <<hb_got, hb_sent>>
scorelog == <<score, displayed>>
probelog == <<probe_status, completed, reordered>>
starts == <<last_heartbeat_start, last_test_tick, last_test_lag>>
vars == <<sched, hbvars, cyclevars, testlog, config, routing, hblog, scorelog,
          probelog, starts>>

Accounts == 1..Len(tokens)
Zero == [a \in 1..MaxAccounts |-> 0]
Bump(f, a) == [f EXCEPT ![a] = @ + 1]

\* ---- what the network can answer
TransportErrors == {"TimeoutError", "ClientConnectorError", "ServerDisconnectedError"}
Exceptions == TransportErrors \cup {"ContentTypeError", "TypeError"}
Statuses == {200, 429, 500}
Bodies == {"ok", "missing", "malformed"}
HttpOutcomes ==
    [exc : TransportErrors, status : {0}, body : {"none"}]
        \cup [exc : {NoExc}, status : Statuses, body : Bodies]
ProbeOutcomes ==
    [exc : TransportErrors, status : {0}] \cup [exc : {NoExc}, status : {200, 500}]
Durations == {0, TIMEOUT}
Latencies == {0, 42}
IPs == {"198.51.100.7"}

\* a request failed: transport failure, non-200 status or unusable body
Failed(o) == ~(o.exc = NoExc /\ o.status = 200 /\ o.body = "ok")

\* ---- the except clauses
get_ip_except(e) == e \in Exceptions
\* an except clause that names the timeout only
send_heartbeat_except_TimeoutOnly(e) == e = "TimeoutError"
send_heartbeat_except(e) == e \in Exceptions
\* an except clause that names the timeout only
fetch_points_except_TimeoutOnly(e) == e = "TimeoutError"
fetch_points_except(e) == e \in Exceptions
test_single_node_except(e) == e \in {"TimeoutError", "ClientConnectorError"}
\* an except clause that names the timeout only
report_node_result_except_TimeoutOnly(e) == e = "TimeoutError"
report_node_result_except(e) == e \in Exceptions
\* an except clause that names the timeout only
start_testing_except_TimeoutOnly(e) == e = "TimeoutError"
start_testing_except(e) == e \in Exceptions
run_node_except(e) == e = "KeyboardInterrupt"

\* the exception the body of a request raises, if any: the transport's, or
\* the one of response.json() when a 200 answer is read and is not JSON
RaisedBy(o, reads_json) ==
    IF o.exc # NoExc THEN o.exc
    ELSE IF reads_json /\ o.status = 200 /\ o.body = "malformed" THEN "ContentTypeError"
    ELSE NoExc

\* get_ip: the ip of a 200 answer, None otherwise; a caught exception is
\* followed by asyncio.sleep(RETRY_DELAY)
get_ip(o, addr) ==
    LET e == RaisedBy(o, TRUE) IN
    IF e # NoExc
    THEN IF get_ip_except(e)
         THEN [raised |-> NoExc, ret |-> None, delay |-> RETRY_DELAY]
         ELSE [raised |-> e, ret |-> None, delay |-> 0]
    ELSE [raised |-> NoExc,
          ret |-> IF o.status = 200 /\ o.body = "ok" THEN addr ELSE None,
          delay |-> 0]

\* the heartbeat POST of send_heartbeat: every status and every caught
\* exception ends the call the same way
heartbeat_post(o) ==
    LET e == RaisedBy(o, FALSE) IN
    IF e # NoExc /\ ~send_heartbeat_except(e) THEN e ELSE NoExc

\* fetch_points: the points of a 200 answer, None otherwise
fetch_points(o) ==
    LET e == RaisedBy(o, TRUE) IN
    IF e # NoExc
    THEN IF fetch_points_except(e)
         THEN [raised |-> NoExc, ret |-> None, delay |-> RETRY_DELAY]
         ELSE [raised |-> e, ret |-> None, delay |-> 0]
    ELSE [raised |-> NoExc,
          ret |-> IF o.status = 200 /\ o.body = "ok" THEN "points" ELSE None,
          delay |-> 0]

\* a probe that tags every answered request as online
test_single_node_AnyAnswerOnline(node, o, latency) ==
    IF o.exc # NoExc
    THEN IF test_single_node_except(o.exc)
         THEN [state |-> "done", raised |-> NoExc,
               ret |-> <<node.node_id, node.ip, -1, "offline">>]
         ELSE [state |-> "raised", raised |-> o.exc, ret |-> <<>>]
    ELSE [state |-> "done", raised |-> NoExc,
          ret |-> <<node.node_id, node.ip, latency, "online">>]

\* test_single_node: the result tuple (node_id, ip, latency, status), or the
\* exception that leaves the coroutine
test_single_node(node, o, latency) ==
    IF o.exc # NoExc
    THEN IF test_single_node_except(o.exc)
         THEN [state |-> "done", raised |-> NoExc,
               ret |-> <<node.node_id, node.ip, -1, "offline">>]
         ELSE [state |-> "raised", raised |-> o.exc, ret |-> <<>>]
    ELSE LET status == IF o.status = 200 THEN "online" ELSE "offline"
             latency_value == IF status = "online" THEN latency ELSE -1
         IN [state |-> "done", raised |-> NoExc,
             ret |-> <<node.node_id, node.ip, latency_value, status>>]

Running == [state |-> "running", raised |-> NoExc, ret |-> <<>>]

\* report_node_result: the exception that leaves the call, if any
report_node_result(o) ==
    LET e == RaisedBy(o, FALSE) IN
    IF e # NoExc /\ ~report_node_result_except(e) THEN e ELSE NoExc

\* where an exception raised inside start_testing's try block leaves the
\* coroutine of run_node: start_testing swallows it and run_node goes on to
\* fetch_points, or it leaves start_testing and run_node
AfterStartTesting(e) ==
    IF e = NoExc \/ start_testing_except(e) THEN "points"
    ELSE IF run_node_except(e) THEN "returned" ELSE "raised"

\* where an exception that reaches run_node's loop body leaves the coroutine
AfterTask(e, next) ==
    IF e = NoExc THEN next
    ELSE IF run_node_except(e) THEN "returned" ELSE "raised"

\* ---- time
\* the horizon of the clock: runs without proxies are followed up to MaxTime,
\* runs with proxies up to MaxProxyTime
Horizon == IF proxies = <<>> THEN MaxTime ELSE MaxProxyTime

\* d seconds can pass: the clock stays within the model's horizon and no
\* probe outlives its timeout
CanElapse(d) ==
    /\ now + d <= Horizon
    /\ (\A a \in 1..MaxAccounts : orphans[a] = 0) \/ now + d <= orphan_expiry

\* the time a round started after the clock was read, followed up to MaxLag
Lag(d) == IF d > MaxLag THEN MaxLag ELSE d

\* the first account of the tick that met a failure
NoteFailure(bad) == IF bad /\ failed_at = 0 THEN i ELSE failed_at

\* ---- the files
\* a line of token.txt is a string, kept as the sequence of its character
\* codes: the comma, white space (blank or line end), and letters
Comma == 44
Space == 32
Letter(a) == 96 + a
Chars == {Comma, Space, Letter(1)}
Lines == UNION {[1..m -> Chars] : m \in 0..MaxLineLen}

\* str.strip(): the string without its leading and trailing white space
RECURSIVE LStrip(_)
LStrip(s) == IF s # <<>> /\ Head(s) = Space THEN LStrip(Tail(s)) ELSE s
RECURSIVE RStrip(_)
RStrip(s) ==
    IF s # <<>> /\ s[Len(s)] = Space THEN RStrip(SubSeq(s, 1, Len(s) - 1)) ELSE s
strip(s) == RStrip(LStrip(s))

\* str.split(','): the fields between the commas, the one being read last
RECURSIVE SplitFrom(_, _)
SplitFrom(s, field) ==
    IF s = <<>> THEN <<field>>
    ELSE IF Head(s) = Comma THEN <<field>> \o SplitFrom(Tail(s), <<>>)
    ELSE SplitFrom(Tail(s), Append(field, Head(s)))
split(s) == SplitFrom(s, <<>>)
NoFile == [exists |-> FALSE, lines |-> <<>>]
AllFiles ==
    {NoFile} \cup {[exists |-> TRUE, lines |-> l] :
                        l \in UNION {[1..m -> Lines] : m \in 0..MaxLines}}

\* the token files of the scheduler's runs: none, or one line per account
SchedulerFiles ==
    {NoFile} \cup {[exists |-> TRUE,
                     lines |-> [a \in 1..n |-> <<Letter(a), Comma, Letter(a)>>]] :
                        n \in 0..MaxAccounts}

\* the lists of proxies: proxy p stands at position p
ProxyLists == {[p \in 1..m |-> p] : m \in 0..MaxProxies}

\* a mapping whose known tokens keep the email they had
Put_KeepFirst(m, token, email) ==
    IF \E q \in 1..Len(m) : m[q][1] = token
    THEN m
    ELSE Append(m, <<token, email>>)

\* token_email_mapping[token] = email on a dict kept as a list of pairs: a
\* known token keeps its place and takes the new email
Put(m, token, email) ==
    IF \E q \in 1..Len(m) : m[q][1] = token
    THEN [q \in 1..Len(m) |-> IF m[q][1] = token THEN <<token, email>> ELSE m[q]]
    ELSE Append(m, <<token, email>>)

\* the for loop of load_tokens_with_emails: a line of two fields is stored,
\* any other line is passed over
RECURSIVE LoadLines(_, _)
LoadLines(lines, m) ==
    IF lines = <<>> THEN m
    ELSE LET parts == split(strip(Head(lines))) IN
         LoadLines(Tail(lines),
                   IF Len(parts) = 2 THEN Put(m, parts[1], parts[2]) ELSE m)

\* the except clauses of load_tokens_with_emails
load_tokens_except(e) == e = "FileNotFoundError" \/ e \in Exceptions

\* load_tokens_with_emails: the mapping read, or {} after a caught exception
load_tokens_with_emails(file) ==
    LET e == IF file.exists THEN NoExc ELSE "FileNotFoundError" IN
    IF e # NoExc
    THEN [raised |-> IF load_tokens_except(e) THEN NoExc ELSE e, ret |-> <<>>]
    ELSE [raised |-> NoExc, ret |-> LoadLines(file.lines, <<>>)]

\* a test that lets an empty mapping through
NoAccounts_Never(m) == FALSE

\* "if not token_email_mapping"
NoAccounts(m) == Len(m) = 0

\* the routes a request of a session can take when the caller passed proxy p:
\* every session is built on a plain TCPConnector, p is only stored on the
\* private attribute session._connector._proxy, and session.get / session.post
\* are called without a proxy argument, so whether the request goes through p
\* or connects directly is left to what the connector does with that attribute
Routes(p) == {p, NoProxy}

\* proxies[i] if i < len(proxies) else None, i counted from 0
ProxyFor(idx) == IF idx < Len(proxies) THEN proxies[idx + 1] ELSE NoProxy

InitState ==
    /\ now = 0
    /\ pc = "start"
    /\ tokens = <<>>
    /\ token_email_mapping = <<>>
    /\ next_heartbeat_time = 0
    /\ next_test_time = 0
    /\ current_time = 0
    /\ first_heartbeat = TRUE
    /\ i = 0
    /\ ip = None
    /\ nodes = <<>>
    /\ probe = <<>>
    /\ results = <<>>
    /\ k = 0
    /\ orphans = Zero
    /\ orphan_expiry = 0
    /\ slept = FALSE
    /\ hb_round = FALSE
    /\ test_round = FALSE
    /\ prev_heartbeat_time = 0
    /\ prev_test_time = 0
    /\ failed_at = 0
    /\ hb_calls = Zero
    /\ hb_returns = Zero
    /\ test_calls = Zero
    /\ test_returns = Zero
    /\ nodes_fetch = "none"
    /\ probes_started = 0
    /\ reports_sent = 0
    /\ report_failed = FALSE
    /\ reports_in_flight = 0
    /\ posted = <<>>
    /\ points_fetched = 0
    /\ proxy = NoProxy
    /\ used = {}
    /\ hb_got = None
    /\ hb_sent = <<>>
    /\ score = None
    /\ displayed = 0
    /\ probe_status = <<>>
    /\ completed = <<>>
    /\ reordered = FALSE
    /\ last_heartbeat_start = NoRound
    /\ last_test_tick = NoRound
    /\ last_test_lag = 0

\* run_node is entered with some token.txt and some list of proxies
Init ==
    /\ token_file \in SchedulerFiles
    /\ proxies \in ProxyLists
    /\ InitState

\* a test deadline that starts one interval after the start
FirstTestTime_Later == now + TEST_INTERVAL

\* the first deadlines: datetime.now()
FirstHeartbeatTime == now
FirstTestTime == now

\* run_node up to the loop: no account, no loop; otherwise both deadlines
\* are set to the current time
LoadTokens ==
    /\ pc = "start"
    /\ LET r == load_tokens_with_emails(token_file) IN
        /\ token_email_mapping' = r.ret
        /\ tokens' = [a \in 1..Len(r.ret) |-> r.ret[a][1]]
        /\ IF r.raised # NoExc
           THEN /\ pc' = AfterTask(r.raised, "loop")
                /\ UNCHANGED <<next_heartbeat_time, next_test_time, first_heartbeat>>
           ELSE IF NoAccounts(r.ret)
           THEN /\ pc' = "returned"
                /\ UNCHANGED <<next_heartbeat_time, next_test_time, first_heartbeat>>
           ELSE /\ pc' = "loop"
                /\ next_heartbeat_time' = FirstHeartbeatTime
                /\ next_test_time' = FirstTestTime
                /\ first_heartbeat' = TRUE
    /\ UNCHANGED <<now, current_time, i, slept, hb_round, test_round,
                   prev_heartbeat_time, prev_test_time, failed_at>>
    /\ UNCHANGED <<hbvars, cyclevars, testlog>>
    /\ UNCHANGED <<token_file, proxies>>
    /\ UNCHANGED <<routing, hblog, scorelog, probelog, starts>>

\* top of the loop: read the clock and test the heartbeat deadline
TickStart ==
    /\ pc = "loop"
    /\ current_time' = now
    /\ IF now >= next_heartbeat_time
       THEN /\ first_heartbeat' = FALSE
            /\ hb_round' = TRUE
            /\ i' = 1
            /\ pc' = "hb_loop"
            /\ last_heartbeat_start' = now
       ELSE /\ pc' = "test_check"
            /\ UNCHANGED <<first_heartbeat, hb_round, i, last_heartbeat_start>>
    /\ UNCHANGED <<now, tokens, next_heartbeat_time, next_test_time, slept,
                   test_round, prev_heartbeat_time, prev_test_time, failed_at>>
    /\ UNCHANGED <<hbvars, cyclevars, testlog>>
    /\ UNCHANGED <<last_test_tick, last_test_lag, config, routing, hblog, scorelog, probelog>>

\* a new heartbeat deadline counted from the end of the round
NewHeartbeatTime_FromNow == now + HEARTBEAT_INTERVAL

\* the new deadlines: current_time + timedelta(seconds=...)
NewHeartbeatTime == current_time + HEARTBEAT_INTERVAL

\* a test deadline that takes the interval of the heartbeat
NewTestTime_HeartbeatInterval == current_time + HEARTBEAT_INTERVAL
NewTestTime == current_time + TEST_INTERVAL

\* a heartbeat loop that starts send_heartbeat as a task of its own and does
\* not wait for it
HeartbeatNext_NoAwait ==
    /\ pc = "hb_loop"
    /\ IF i <= Len(tokens)
       THEN /\ pc' = "hb_loop"
            /\ i' = i + 1
            /\ hb_calls' = Bump(hb_calls, i)
            /\ proxy' = ProxyFor(i - 1)
            /\ used' = {}
            /\ hb_got' = None
            /\ hb_sent' = <<>>
            /\ UNCHANGED <<next_heartbeat_time, prev_heartbeat_time>>
       ELSE /\ pc' = "test_check"
            /\ next_heartbeat_time' = NewHeartbeatTime
            /\ prev_heartbeat_time' = next_heartbeat_time
            /\ used' = {}
            /\ hb_got' = None
            /\ hb_sent' = <<>>
            /\ UNCHANGED proxy
            /\ UNCHANGED <<hb_calls, i>>
    /\ UNCHANGED <<now, tokens, next_test_time, current_time, first_heartbeat,
                   slept, hb_round, test_round, prev_test_time, failed_at>>
    /\ UNCHANGED <<ip, hb_returns>>
    /\ UNCHANGED <<cyclevars, testlog>>
    /\ UNCHANGED <<config, scorelog, probelog, starts>>


\* head of the heartbeat for loop: invoke send_heartbeat for the next
\* account, or leave the loop and move the deadline
HeartbeatNext ==
    /\ pc = "hb_loop"
    /\ IF i <= Len(tokens)
       THEN /\ pc' = "get_ip"
            /\ hb_calls' = Bump(hb_calls, i)
            /\ proxy' = ProxyFor(i - 1)
            /\ used' = {}
            /\ hb_got' = None
            /\ hb_sent' = <<>>
            /\ UNCHANGED <<next_heartbeat_time, prev_heartbeat_time>>
       ELSE /\ pc' = "test_check"
            /\ next_heartbeat_time' = NewHeartbeatTime
            /\ prev_heartbeat_time' = next_heartbeat_time
            /\ used' = {}
            /\ hb_got' = None
            /\ hb_sent' = <<>>
            /\ UNCHANGED proxy
            /\ UNCHANGED hb_calls
    /\ UNCHANGED <<now, tokens, next_test_time, current_time, first_heartbeat, i,
                   slept, hb_round, test_round, prev_test_time, failed_at>>
    /\ UNCHANGED <<ip, hb_returns>>
    /\ UNCHANGED <<cyclevars, testlog>>
    /\ UNCHANGED <<config, scorelog, probelog, starts>>

\* send_heartbeat up to "if not ip: return"
GetIp ==
    /\ pc = "get_ip"
    /\ \E o \in HttpOutcomes, addr \in IPs, d \in Durations :
        LET r == get_ip(o, addr) IN
        /\ CanElapse(d + r.delay)
        /\ now' = now + d + r.delay
        /\ failed_at' = NoteFailure(Failed(o))
        /\ IF r.raised # NoExc
           THEN /\ pc' = AfterTask(r.raised, "hb_loop")
                /\ ip' = None
                /\ UNCHANGED <<i, hb_returns>>
           ELSE IF r.ret = None
           THEN /\ pc' = "hb_loop"
                /\ ip' = None
                /\ i' = i + 1
                /\ hb_returns' = Bump(hb_returns, i)
           ELSE /\ pc' = "hb_post"
                /\ ip' = r.ret
                /\ UNCHANGED <<i, hb_returns>>
    /\ UNCHANGED <<tokens, next_heartbeat_time, next_test_time, current_time,
                   first_heartbeat, slept, hb_round, test_round,
                   prev_heartbeat_time, prev_test_time>>
    /\ UNCHANGED hb_calls
    /\ UNCHANGED <<cyclevars, testlog>>
    /\ \E route \in Routes(proxy) : used' = used \cup {route}
    /\ hb_got' = ip'
    /\ UNCHANGED <<hb_sent, proxy, config, scorelog, probelog, starts>>

\* the POST of send_heartbeat and its return
HeartbeatPost ==
    /\ pc = "hb_post"
    /\ \E o \in HttpOutcomes, d \in Durations :
        LET e == heartbeat_post(o) IN
        /\ CanElapse(d)
        /\ now' = now + d
        /\ failed_at' = NoteFailure(o.exc # NoExc \/ o.status # 200)
        /\ IF e # NoExc
           THEN /\ pc' = AfterTask(e, "hb_loop")
                /\ UNCHANGED <<i, hb_returns>>
           ELSE /\ pc' = "hb_loop"
                /\ i' = i + 1
                /\ hb_returns' = Bump(hb_returns, i)
    /\ ip' = None
    /\ UNCHANGED <<tokens, next_heartbeat_time, next_test_time, current_time,
                   first_heartbeat, slept, hb_round, test_round,
                   prev_heartbeat_time, prev_test_time>>
    /\ UNCHANGED hb_calls
    /\ UNCHANGED <<cyclevars, testlog>>
    /\ \E route \in Routes(proxy) : used' = used \cup {route}
    /\ hb_sent' = Append(hb_sent, ip)
    /\ UNCHANGED <<hb_got, proxy, config, scorelog, probelog, starts>>

\* the test deadline is tested against the time read at the top of the loop
TestCheck ==
    /\ pc = "test_check"
    /\ IF current_time >= next_test_time
       THEN /\ test_round' = TRUE
            /\ i' = 1
            /\ pc' = "test_loop"
            /\ last_test_tick' = current_time
            /\ last_test_lag' = Lag(now - current_time)
       ELSE /\ pc' = "sleep"
            /\ UNCHANGED <<test_round, i, last_test_tick, last_test_lag>>
    /\ UNCHANGED <<now, tokens, next_heartbeat_time, next_test_time, current_time,
                   first_heartbeat, slept, hb_round, prev_heartbeat_time,
                   prev_test_time, failed_at>>
    /\ UNCHANGED <<hbvars, cyclevars, testlog>>
    /\ UNCHANGED <<last_heartbeat_start, config, routing, hblog, scorelog, probelog>>

\* a test loop that moves the deadline at every account
TestNext_PerAccount ==
    /\ pc = "test_loop"
    /\ IF i <= Len(tokens)
       THEN /\ pc' = "nodes_get"
            /\ test_calls' = Bump(test_calls, i)
            /\ nodes_fetch' = "none"
            /\ probes_started' = 0
            /\ reports_sent' = 0
            /\ report_failed' = FALSE
            /\ points_fetched' = 0
            /\ proxy' = ProxyFor(i - 1)
            /\ used' = {}
            /\ score' = None
            /\ displayed' = 0
            /\ next_test_time' = NewTestTime
            /\ prev_test_time' = next_test_time
       ELSE /\ pc' = "sleep"
            /\ next_test_time' = NewTestTime
            /\ prev_test_time' = next_test_time
            /\ used' = {}
            /\ UNCHANGED <<proxy, score, displayed>>
            /\ UNCHANGED <<test_calls, nodes_fetch, probes_started, reports_sent,
                           report_failed, points_fetched>>
    /\ UNCHANGED <<now, tokens, next_heartbeat_time, current_time, first_heartbeat,
                   i, slept, hb_round, test_round, prev_heartbeat_time, failed_at>>
    /\ UNCHANGED <<test_returns, reports_in_flight, posted>>
    /\ UNCHANGED <<hbvars, cyclevars>>
    /\ UNCHANGED <<config, hblog, probelog, starts>>


\* head of the test for loop: invoke start_testing for the next account, or
\* leave the loop and move the deadline
TestNext ==
    /\ pc = "test_loop"
    /\ IF i <= Len(tokens)
       THEN /\ pc' = "nodes_get"
            /\ test_calls' = Bump(test_calls, i)
            /\ nodes_fetch' = "none"
            /\ probes_started' = 0
            /\ reports_sent' = 0
            /\ report_failed' = FALSE
            /\ points_fetched' = 0
            /\ proxy' = ProxyFor(i - 1)
            /\ used' = {}
            /\ score' = None
            /\ displayed' = 0
            /\ UNCHANGED <<next_test_time, prev_test_time>>
       ELSE /\ pc' = "sleep"
            /\ next_test_time' = NewTestTime
            /\ prev_test_time' = next_test_time
            /\ used' = {}
            /\ UNCHANGED <<proxy, score, displayed>>
            /\ UNCHANGED <<test_calls, nodes_fetch, probes_started, reports_sent,
                           report_failed, points_fetched>>
    /\ UNCHANGED <<now, tokens, next_heartbeat_time, current_time, first_heartbeat,
                   i, slept, hb_round, test_round, prev_heartbeat_time, failed_at>>
    /\ UNCHANGED <<test_returns, reports_in_flight, posted>>
    /\ UNCHANGED <<hbvars, cyclevars>>
    /\ UNCHANGED <<config, hblog, probelog, starts>>

\* start_testing without its status test
NodesOk_NoStatusTest(o) == TRUE

\* the status test of start_testing on the answer of GET /nodes
NodesOk(o) == o.status = 200

\* the exception raised in start_testing before any probe is sent: the
\* transport's, the one of response.json(), or the TypeError of
\* test_single_node on an answer that is no list of nodes
NodesRaised(o) ==
    IF RaisedBy(o, NodesOk(o)) # NoExc THEN RaisedBy(o, NodesOk(o))
    ELSE IF NodesOk(o) /\ o.body = "missing" THEN "TypeError"
    ELSE NoExc

\* start_testing up to the call of test_all_nodes: GET /nodes, and on a 200
\* answer that lists nodes, one probe task per node, all started together
NodesGet ==
    /\ pc = "nodes_get"
    /\ \E o \in HttpOutcomes, n \in 0..MaxNodes, d \in Durations :
        /\ CanElapse(d)
        /\ now' = now + d
        /\ nodes_fetch' = IF Failed(o) THEN "failed" ELSE "ok"
        /\ failed_at' = NoteFailure(Failed(o))
        /\ IF NodesRaised(o) = NoExc /\ NodesOk(o)
           THEN /\ nodes' = [j \in 1..n |-> [node_id |-> j, ip |-> 100 + j]]
                /\ probe' = [j \in 1..n |-> Running]
                /\ probes_started' = probes_started + n
                /\ pc' = "gather"
           ELSE /\ pc' = AfterStartTesting(NodesRaised(o))
                /\ UNCHANGED <<nodes, probe, probes_started>>
    /\ UNCHANGED <<tokens, next_heartbeat_time, next_test_time, current_time,
                   first_heartbeat, i, slept, hb_round, test_round,
                   prev_heartbeat_time, prev_test_time>>
    /\ UNCHANGED <<results, k, orphans, orphan_expiry>>
    /\ UNCHANGED <<test_calls, test_returns, reports_sent, report_failed,
                   reports_in_flight, posted, points_fetched>>
    /\ UNCHANGED hbvars
    /\ \E route \in Routes(proxy) : used' = used \cup {route}
    /\ probe_status' = [j \in 1..Len(probe') |-> 0]
    /\ completed' = <<>>
    /\ reordered' = FALSE
    /\ UNCHANGED <<proxy, config, hblog, scorelog, starts>>

\* one probe of the gather in progress finishes or fails
ProbeFinish(j) ==
    /\ pc = "gather"
    /\ j \in 1..Len(probe)
    /\ probe[j].state = "running"
    /\ \E o \in ProbeOutcomes, latency \in Latencies :
        /\ probe' = [probe EXCEPT ![j] = test_single_node(nodes[j], o, latency)]
        /\ failed_at' = NoteFailure(o.exc # NoExc \/ o.status # 200)
        /\ probe_status' = [probe_status EXCEPT ![j] = o.status]
        /\ completed' = Append(completed, j)
        /\ UNCHANGED reordered
    /\ UNCHANGED <<now, pc, tokens, next_heartbeat_time, next_test_time,
                   current_time, first_heartbeat, i, slept, hb_round, test_round,
                   prev_heartbeat_time, prev_test_time>>
    /\ UNCHANGED <<nodes, results, k, orphans, orphan_expiry>>
    /\ UNCHANGED <<hbvars, testlog>>
    /\ UNCHANGED <<config, routing, hblog, scorelog, starts>>

\* a wait that ends with the first probe that has returned
GatherDone_First == \E j \in 1..Len(probe) : probe[j].state = "done"

\* results handed over in the order the probes completed in
GatherResults_AsCompleted == [q \in 1..Len(probe) |-> probe[completed[q]].ret]

\* the value of asyncio.gather: the results in the order of its arguments
GatherResults == [j \in 1..Len(probe) |-> probe[j].ret]

\* asyncio.gather is done once every probe has returned
GatherDone == \A j \in 1..Len(probe) : probe[j].state = "done"

\* asyncio.gather hands over the results, in the order of its arguments,
\* once every probe has returned
GatherReturn ==
    /\ pc = "gather"
    /\ GatherDone
    /\ \E d \in Durations :
        /\ CanElapse(d)
        /\ now' = now + d
    /\ results' = GatherResults
    /\ k' = 1
    /\ pc' = "report_loop"
    /\ UNCHANGED <<tokens, next_heartbeat_time, next_test_time, current_time,
                   first_heartbeat, i, slept, hb_round, test_round,
                   prev_heartbeat_time, prev_test_time, failed_at>>
    /\ UNCHANGED <<nodes, probe, orphans, orphan_expiry>>
    /\ UNCHANGED <<hbvars, testlog>>
    /\ probe_status' = <<>>
    /\ completed' = <<>>
    /\ reordered' = (completed # [j \in 1..Len(probe) |-> j])
    /\ UNCHANGED <<config, routing, hblog, scorelog, starts>>

\* asyncio.gather raises the exception of a probe as soon as one has
\* raised; the other probes are not cancelled and run on until they answer
\* or time out
GatherRaise ==
    /\ pc = "gather"
    /\ \E j \in 1..Len(probe) :
        /\ probe[j].state = "raised"
        /\ pc' = AfterStartTesting(probe[j].raised)
    /\ \E d \in Durations :
        /\ CanElapse(d)
        /\ now' = now + d
    /\ LET left == Cardinality({j \in 1..Len(probe) : probe[j].state = "running"}) IN
        /\ orphans' = [orphans EXCEPT ![i] = @ + left]
        /\ orphan_expiry' = IF left > 0 THEN now + TIMEOUT ELSE orphan_expiry
    /\ nodes' = <<>>
    /\ probe' = <<>>
    /\ UNCHANGED <<tokens, next_heartbeat_time, next_test_time, current_time,
                   first_heartbeat, i, slept, hb_round, test_round,
                   prev_heartbeat_time, prev_test_time, failed_at>>
    /\ UNCHANGED <<results, k>>
    /\ UNCHANGED <<hbvars, testlog>>
    /\ probe_status' = <<>>
    /\ completed' = <<>>
    /\ reordered' = FALSE
    /\ UNCHANGED <<config, routing, hblog, scorelog, starts>>

\* a probe left behind by a gather that raised answers or times out
OrphanFinish(a) ==
    /\ orphans[a] > 0
    /\ orphans' = [orphans EXCEPT ![a] = @ - 1]
    /\ UNCHANGED sched
    /\ UNCHANGED <<nodes, probe, results, k, orphan_expiry>>
    /\ UNCHANGED <<hbvars, testlog>>
    /\ UNCHANGED <<config, routing, hblog, scorelog, probelog, starts>>

\* head of the for loop of report_all_node_results: send the next report, or
\* return from report_all_node_results and from start_testing
ReportNext ==
    /\ pc = "report_loop"
    /\ IF k <= Len(results)
       THEN /\ pc' = "report_post"
            /\ reports_in_flight' = reports_in_flight + 1
            /\ \E route \in Routes(proxy) : used' = used \cup {route}
            /\ UNCHANGED probelog
            /\ UNCHANGED <<nodes, probe, results, k, posted>>
       ELSE /\ pc' = "points"
            /\ nodes' = <<>>
            /\ probe' = <<>>
            /\ results' = <<>>
            /\ k' = 0
            /\ posted' = <<>>
            /\ probe_status' = <<>>
            /\ completed' = <<>>
            /\ reordered' = FALSE
            /\ UNCHANGED used
            /\ UNCHANGED reports_in_flight
    /\ UNCHANGED <<now, tokens, next_heartbeat_time, next_test_time, current_time,
                   first_heartbeat, i, slept, hb_round, test_round,
                   prev_heartbeat_time, prev_test_time, failed_at>>
    /\ UNCHANGED <<orphans, orphan_expiry>>
    /\ UNCHANGED <<test_calls, test_returns, nodes_fetch, probes_started,
                   reports_sent, report_failed, points_fetched>>
    /\ UNCHANGED hbvars
    /\ UNCHANGED <<proxy, config, hblog, scorelog, starts>>

\* report_node_result: the POST to /test and its return
ReportPost ==
    /\ pc = "report_post"
    /\ \E o \in HttpOutcomes, d \in Durations :
        LET e == report_node_result(o) IN
        /\ CanElapse(d)
        /\ now' = now + d
        /\ report_failed' = (report_failed \/ o.exc # NoExc \/ o.status # 200)
        /\ failed_at' = NoteFailure(o.exc # NoExc \/ o.status # 200)
        /\ IF e # NoExc
           THEN /\ pc' = AfterStartTesting(e)
                /\ nodes' = <<>>
                /\ probe' = <<>>
                /\ results' = <<>>
                /\ k' = 0
                /\ posted' = <<>>
                /\ probe_status' = <<>>
                /\ completed' = <<>>
                /\ reordered' = FALSE
           ELSE /\ pc' = "report_loop"
                /\ k' = k + 1
                /\ posted' = Append(posted, results[k])
                /\ UNCHANGED <<nodes, probe, results, probelog>>
    /\ reports_in_flight' = reports_in_flight - 1
    /\ reports_sent' = reports_sent + 1
    /\ UNCHANGED <<tokens, next_heartbeat_time, next_test_time, current_time,
                   first_heartbeat, i, slept, hb_round, test_round,
                   prev_heartbeat_time, prev_test_time>>
    /\ UNCHANGED <<orphans, orphan_expiry>>
    /\ UNCHANGED <<test_calls, test_returns, nodes_fetch, probes_started,
                   points_fetched>>
    /\ UNCHANGED hbvars
    /\ UNCHANGED <<config, routing, hblog, scorelog, starts>>

\* "if current_points is not None": the score line is printed
ShowsScore(points) == points # None

\* run_node after start_testing: fetch_points, the score line when there is
\* a score, then the next account
FetchPoints ==
    /\ pc = "points"
    /\ \E o \in HttpOutcomes, d \in Durations :
        LET r == fetch_points(o) IN
        /\ CanElapse(d + r.delay)
        /\ now' = now + d + r.delay
        /\ failed_at' = NoteFailure(Failed(o))
        /\ score' = r.ret
        /\ displayed' = IF r.raised = NoExc /\ ShowsScore(r.ret)
                        THEN displayed + 1 ELSE displayed
        /\ IF r.raised # NoExc
           THEN /\ pc' = AfterTask(r.raised, "test_loop")
                /\ UNCHANGED <<i, test_returns>>
           ELSE /\ pc' = "test_loop"
                /\ i' = i + 1
                /\ test_returns' = Bump(test_returns, i)
    /\ points_fetched' = points_fetched + 1
    /\ UNCHANGED <<tokens, next_heartbeat_time, next_test_time, current_time,
                   first_heartbeat, slept, hb_round, test_round,
                   prev_heartbeat_time, prev_test_time>>
    /\ UNCHANGED <<test_calls, nodes_fetch, probes_started, reports_sent,
                   report_failed, reports_in_flight, posted>>
    /\ UNCHANGED <<hbvars, cyclevars>>
    /\ \E route \in Routes(proxy) : used' = used \cup {route}
    /\ UNCHANGED <<proxy, config, hblog, probelog, starts>>

\* asyncio.sleep(1) at the bottom of the loop; the records of the tick end
\* with it
Sleep ==
    /\ pc = "sleep"
    /\ \E d \in SLEEP..(SLEEP + MaxJitter) :
        /\ CanElapse(d)
        /\ now' = now + d
    /\ pc' = "loop"
    /\ slept' = TRUE
    /\ hb_round' = FALSE
    /\ test_round' = FALSE
    /\ failed_at' = 0
    /\ hb_calls' = Zero
    /\ hb_returns' = Zero
    /\ test_calls' = Zero
    /\ test_returns' = Zero
    /\ nodes_fetch' = "none"
    /\ probes_started' = 0
    /\ reports_sent' = 0
    /\ report_failed' = FALSE
    /\ points_fetched' = 0
    /\ UNCHANGED <<tokens, next_heartbeat_time, next_test_time, current_time,
                   first_heartbeat, i, prev_heartbeat_time, prev_test_time>>
    /\ UNCHANGED <<ip, reports_in_flight, posted>>
    /\ UNCHANGED cyclevars
    /\ used' = {}
    /\ hb_got' = None
    /\ hb_sent' = <<>>
    /\ score' = None
    /\ displayed' = 0
    /\ UNCHANGED <<proxy, config, probelog, starts>>

Next ==
    \/ LoadTokens
    \/ TickStart
    \/ HeartbeatNext
    \/ GetIp
    \/ HeartbeatPost
    \/ TestCheck
    \/ TestNext
    \/ NodesGet
    \/ \E j \in 1..MaxNodes : ProbeFinish(j)
    \/ GatherReturn
    \/ GatherRaise
    \/ \E a \in 1..MaxAccounts : OrphanFinish(a)
    \/ ReportNext
    \/ ReportPost
    \/ FetchPoints
    \/ Sleep

Spec == Init /\ [][Next]_vars

\* ---- the run under an interrupt
\* SIGINT while run_node is suspended in "await asyncio.sleep(1)": asyncio
\* cancels the task of the coroutine, so the await raises CancelledError inside
\* run_node's try block, and KeyboardInterrupt is raised by asyncio.run to
\* __main__ only after the coroutine has been left
Interrupt ==
    /\ pc = "sleep"
    /\ pc' = AfterTask("CancelledError", "loop")
    /\ UNCHANGED <<now, tokens, next_heartbeat_time, next_test_time, current_time,
                   first_heartbeat, i, slept, hb_round, test_round,
                   prev_heartbeat_time, prev_test_time, failed_at>>
    /\ UNCHANGED <<hbvars, cyclevars, testlog, config, routing, hblog, scorelog,
                   probelog, starts>>

NextInterrupt == Next \/ Interrupt

SpecInterrupt == Init /\ [][NextInterrupt]_vars

\* ---- the loader alone, on every token file
InitLoad ==
    /\ token_file \in AllFiles
    /\ proxies = <<>>
    /\ InitState

SpecLoad == InitLoad /\ [][LoadTokens]_vars

\* ---- the run without an end
\* run_node reads the clock only to compare it with its two deadlines and to
\* set them anew, so a run depends on the differences of its times only: at
\* the top of the loop the clock and the deadlines are counted from the
\* earliest of them, which keeps the times of an endless run in a finite range
Earliest ==
    LET d == IF next_heartbeat_time < next_test_time
             THEN next_heartbeat_time ELSE next_test_time
    IN IF now < d THEN now ELSE d

Shift(t) == IF t >= Earliest THEN t - Earliest ELSE 0

\* the records of the rounds before are dropped with the old origin of time
Rebase ==
    /\ pc = "loop"
    /\ Earliest > 0
    /\ now' = now - Earliest
    /\ next_heartbeat_time' = next_heartbeat_time - Earliest
    /\ next_test_time' = next_test_time - Earliest
    /\ current_time' = Shift(current_time)
    /\ orphan_expiry' = Shift(orphan_expiry)
    /\ prev_heartbeat_time' = 0
    /\ prev_test_time' = 0
    /\ last_heartbeat_start' = NoRound
    /\ last_test_tick' = NoRound
    /\ last_test_lag' = 0
    /\ UNCHANGED <<pc, tokens, first_heartbeat, i, slept, hb_round, test_round,
                   failed_at>>
    /\ UNCHANGED <<nodes, probe, results, k, orphans>>
    /\ UNCHANGED <<hbvars, testlog, config, routing, hblog, scorelog, probelog>>

\* the top of the loop, once the times are counted from the earliest
LiveTickStart == Earliest = 0 /\ TickStart

\* asyncio.sleep(1) that returns after one second exactly
LiveSleep == Sleep /\ now' = now + SLEEP

\* token.txt holds at least one account, and no proxy is configured
LiveInit ==
    /\ token_file \in {f \in SchedulerFiles : Len(f.lines) > 0}
    /\ proxies = <<>>
    /\ InitState

NextLive ==
    \/ LoadTokens
    \/ Rebase
    \/ LiveTickStart
    \/ HeartbeatNext
    \/ GetIp
    \/ HeartbeatPost
    \/ TestCheck
    \/ TestNext
    \/ NodesGet
    \/ \E j \in 1..MaxNodes : ProbeFinish(j)
    \/ GatherReturn
    \/ GatherRaise
    \/ \E a \in 1..MaxAccounts : OrphanFinish(a)
    \/ ReportNext
    \/ ReportPost
    \/ FetchPoints
    \/ LiveSleep

\* the event loop resumes the coroutine whenever it can take a step: every
\* request answers or fails within its timeout, and asyncio.sleep(1) returns
LiveSpec == LiveInit /\ [][NextLive]_vars /\ WF_vars(NextLive)

TypeOK ==
    /\ now \in 0..MaxTime
    /\ pc \in {"start", "loop", "hb_loop", "get_ip", "hb_post", "test_check",
               "test_loop", "nodes_get", "gather", "report_loop", "report_post",
               "points", "sleep", "returned", "raised"}
    /\ Len(tokens) \in 0..MaxAccounts
    /\ i \in 0..(MaxAccounts + 1)
    /\ reports_in_flight \in 0..1

\* ---- the scheduler's deadlines

InHeartbeat == pc \in {"hb_loop", "get_ip", "hb_post"}
InTestCycle == pc \in {"nodes_get", "gather", "report_loop", "report_post", "points"}
InReporter == pc \in {"report_loop", "report_post"}

\* C1, as stated: every update of next_heartbeat_time adds exactly
\* HEARTBEAT_INTERVAL to the previous value and every update of
\* next_test_time adds exactly TEST_INTERVAL to the previous value.
C1_ExactJumps ==
    [][/\ (pc # "start" /\ next_heartbeat_time' # next_heartbeat_time)
            => next_heartbeat_time' = next_heartbeat_time + HEARTBEAT_INTERVAL
       /\ (pc # "start" /\ next_test_time' # next_test_time)
            => next_test_time' = next_test_time + TEST_INTERVAL]_vars

\* C1, amended: every update of next_heartbeat_time sets it to the time read
\* at the top of the tick plus HEARTBEAT_INTERVAL, which is at least
\* HEARTBEAT_INTERVAL more than the previous value, and every update of
\* next_test_time sets it to that time plus TEST_INTERVAL, at least
\* TEST_INTERVAL more than the previous value, whatever time the round took;
\* neither deadline ever decreases.
C1_DeadlineJumps ==
    [][/\ (pc # "start" /\ next_heartbeat_time' # next_heartbeat_time)
            => /\ next_heartbeat_time' = current_time + HEARTBEAT_INTERVAL
               /\ next_heartbeat_time' >= next_heartbeat_time + HEARTBEAT_INTERVAL
       /\ (pc # "start" /\ next_test_time' # next_test_time)
            => /\ next_test_time' = current_time + TEST_INTERVAL
               /\ next_test_time' >= next_test_time + TEST_INTERVAL
       /\ next_heartbeat_time' >= next_heartbeat_time
       /\ next_test_time' >= next_test_time]_vars

\* both deadlines have been moved by more than their interval, after rounds
\* that took time
C1_Witness ==
    /\ next_heartbeat_time > prev_heartbeat_time + HEARTBEAT_INTERVAL
    /\ next_test_time > prev_test_time + TEST_INTERVAL
    /\ now > current_time
    /\ pc = "sleep"

\* C2: a deadline changes only once its task has returned for every account
\* of the tick: next_heartbeat_time only at the exit of the heartbeat loop
\* with send_heartbeat returned for all accounts, next_test_time only at the
\* exit of the test loop with start_testing and fetch_points returned for all
\* accounts; while a round is under way its deadline is still the due one.
C2_AdvanceAfterAllAccounts ==
    [][/\ (pc # "start" /\ next_heartbeat_time' # next_heartbeat_time)
            => /\ pc = "hb_loop"
               /\ \A a \in Accounts : hb_calls[a] = 1 /\ hb_returns[a] = 1
       /\ (pc # "start" /\ next_test_time' # next_test_time)
            => /\ pc = "test_loop"
               /\ \A a \in Accounts : test_calls[a] = 1 /\ test_returns[a] = 1
       /\ (InHeartbeat' /\ \E a \in Accounts : hb_returns'[a] = 0)
            => next_heartbeat_time' <= current_time'
       /\ (test_round' /\ \E a \in Accounts : test_returns'[a] = 0)
            => next_test_time' <= current_time']_vars

\* both deadlines have been moved in a tick in which the first account met a
\* failure and a second account followed
C2_Witness ==
    /\ pc = "sleep"
    /\ Len(tokens) >= 2
    /\ hb_round /\ test_round
    /\ failed_at = 1
    /\ next_heartbeat_time = current_time + HEARTBEAT_INTERVAL
    /\ next_test_time = current_time + TEST_INTERVAL

\* C3: no failure of a request ends run_node, and whatever failures were met
\* each loop is left only after its task has been invoked and has returned
\* for every account, and the tick reaches its sleep with every due round
\* complete.
C3_FailuresAbsorbed ==
    /\ pc # "raised"
    /\ (pc = "returned" => Len(tokens) = 0)
    /\ (pc = "hb_loop" /\ i > Len(tokens))
            => \A a \in Accounts : hb_calls[a] = 1 /\ hb_returns[a] = 1
    /\ (pc = "test_loop" /\ i > Len(tokens))
            => \A a \in Accounts : test_calls[a] = 1 /\ test_returns[a] = 1
    /\ (pc = "sleep" /\ hb_round) => \A a \in Accounts : hb_returns[a] = 1
    /\ (pc = "sleep" /\ test_round) => \A a \in Accounts : test_returns[a] = 1

\* a later tick has reached its sleep after the first account's heartbeat
\* failed and the second account's heartbeat was still made
C3_Witness ==
    /\ pc = "sleep"
    /\ slept
    /\ failed_at = 1
    /\ hb_round /\ ~test_round
    /\ hb_returns[2] = 1

\* C4, as stated: after a failed node-list fetch no node is probed, no result
\* is reported and no score is fetched for that account, and run_node goes on.
C4_CycleAborted ==
    nodes_fetch = "failed"
        => /\ probes_started = 0
           /\ reports_sent = 0
           /\ points_fetched = 0
           /\ pc # "raised"

\* C4, amended: after a failed node-list fetch (exception, non-200 or
\* unusable body) no node is probed and no result is reported for that
\* account in that tick, start_testing returns and run_node goes on; the
\* score fetch of that account is still made.
C4_ProbesAndReportsSkipped ==
    nodes_fetch = "failed"
        => /\ probes_started = 0
           /\ reports_sent = 0
           /\ pc \notin {"gather", "report_loop", "report_post", "raised", "returned"}
           /\ points_fetched = IF pc = "points" THEN 0 ELSE 1

\* the cycle of an account whose node-list fetch failed is over and the next
\* account is about to be served
C4_Witness ==
    /\ pc = "test_loop"
    /\ nodes_fetch = "failed"
    /\ points_fetched = 1
    /\ i = 2
    /\ Len(tokens) >= 2

\* C5: no probe raises out of test_single_node, and test_all_nodes hands
\* over one result per node, each carrying its node's id and ip, tagged
\* offline with latency -1 or online with a latency of at least 0.
C5_OneResultPerNode ==
    /\ \A j \in 1..Len(probe) : probe[j].state # "raised"
    /\ (nodes_fetch = "ok" /\ pc \notin {"nodes_get", "gather"})
            => reports_sent + Len(results) - Len(posted) = probes_started
    /\ InReporter
            => /\ Len(results) = Len(nodes)
               /\ \A j \in 1..Len(results) :
                    /\ results[j][1] = nodes[j].node_id
                    /\ results[j][2] = nodes[j].ip
                    /\ \/ results[j][4] = "offline" /\ results[j][3] = -1
                       \/ results[j][4] = "online" /\ results[j][3] >= 0

\* C6: the probes of a cycle are all started together, and no /test report of
\* the cycle is in flight or has been sent while a probe of the cycle is
\* still running: the reporter works on one result per fetched node.
C6_Barrier ==
    /\ pc = "gather" => Len(probe) = Len(nodes) /\ Len(nodes) = probes_started
    /\ (InTestCycle /\ (InReporter \/ reports_sent > 0 \/ reports_in_flight > 0))
            => /\ \A j \in 1..Len(probe) : probe[j].state = "done"
               /\ orphans[i] = 0
    /\ InReporter => Len(results) = probes_started

\* the first report of a cycle is in flight after one probe found its node
\* offline and the other found its node online
C6_Witness ==
    /\ pc = "report_post"
    /\ reports_sent = 0
    /\ Len(results) = 2
    /\ results[1][4] = "offline"
    /\ results[2][4] = "online"

\* C7: report_all_node_results has at most one report in flight, reports the
\* results one by one in their order, and returns only when each of them has
\* been reported once, whatever reports failed.
C7_Reporter ==
    /\ [](/\ reports_in_flight = IF pc = "report_post" THEN 1 ELSE 0
          /\ InReporter => /\ k \in 1..(Len(results) + 1)
                           /\ posted = SubSeq(results, 1, k - 1)
                           /\ reports_sent = k - 1)
    /\ [][(InReporter /\ ~InReporter')
            => /\ pc = "report_loop"
               /\ posted = results
               /\ reports_sent = Len(results)
               /\ pc' = "points"]_vars

\* the second report is in flight after the first one failed
C7_Witness ==
    /\ pc = "report_post"
    /\ k = 2
    /\ report_failed
    /\ Len(posted) = 1

\* C8: a cycle whose node list was fetched ends with one /test report made
\* for every fetched node.
C8_EveryNodeReported ==
    (nodes_fetch = "ok" /\ pc \in {"points", "test_loop", "sleep"})
        => reports_sent = probes_started

\* accounts whose task has been invoked and has not returned
InProgress ==
    {a \in Accounts : hb_calls[a] > hb_returns[a] \/ test_calls[a] > test_returns[a]}

C10_FirstTick ==
    (pc = "sleep" /\ ~slept)
        => /\ hb_round /\ test_round
           /\ \A a \in Accounts :
                /\ hb_calls[a] = 1 /\ hb_returns[a] = 1
                /\ test_calls[a] = 1 /\ test_returns[a] = 1

\* the first sleep is reached with two accounts
C10_Witness ==
    /\ pc = "sleep"
    /\ ~slept
    /\ Len(tokens) = 2
    /\ next_heartbeat_time = HEARTBEAT_INTERVAL
    /\ next_test_time = TEST_INTERVAL

\* ---- C11
\* send_heartbeat has returned to the heartbeat loop for the account before i
HeartbeatReturned == pc = "hb_loop" /\ i > 1 /\ hb_returns[i - 1] = 1

\* C11: a call of send_heartbeat sends no POST when get_ip gave no IP and
\* exactly one POST, carrying the IP get_ip gave, otherwise; whatever the
\* outcome of its two requests, the call returns to the heartbeat loop of
\* run_node and no exception leaves it.
C11_HeartbeatPosts ==
    /\ [](/\ InHeartbeat => Len(hb_sent) <= 1
          /\ (InHeartbeat /\ hb_got = None) => hb_sent = <<>>
          /\ pc = "hb_post" => (hb_got # None /\ hb_sent = <<>>)
          /\ HeartbeatReturned =>
                hb_sent = (IF hb_got = None THEN <<>> ELSE <<hb_got>>))
    /\ [][InHeartbeat => (pc' = "test_check" \/ InHeartbeat')]_vars

\* the first account's POST was sent with the IP obtained and failed, and the
\* call returned normally
C11_Witness ==
    /\ HeartbeatReturned
    /\ i = 2
    /\ hb_got \in IPs
    /\ hb_sent = <<hb_got>>
    /\ failed_at = 1

\* ---- C12
\* a request of the account at position i may be under way
InCall == pc \in {"get_ip", "hb_post"} \/ InTestCycle

\* C12: every request of the heartbeat and of the test cycle of the account at
\* position i (counted from 1) goes through the proxy at position i when the
\* proxy list has one, and directly otherwise; it never goes through the proxy
\* of another account, and a short proxy list raises no error.
C12_OwnProxy ==
    /\ InCall => used \subseteq {IF i <= Len(proxies) THEN proxies[i] ELSE NoProxy}
    /\ pc # "raised"

\* ---- C14
\* C14: an interrupt that arrives while run_node is in its one-second sleep
\* ends the loop by a normal return of run_node to its caller: the sleep is
\* left either for the next tick or for the return, never with an exception
\* raised out of run_node.
C14_InterruptReturns ==
    [][(pc = "sleep" /\ pc' # "sleep" /\ pc' # "loop") => pc' = "returned"]_vars

\* ---- C15
\* no request of any kind has been issued in the tick
NothingIssued ==
    /\ hb_calls = Zero
    /\ test_calls = Zero
    /\ nodes_fetch = "none"
    /\ probes_started = 0
    /\ reports_sent = 0
    /\ points_fetched = 0
    /\ used = {}

\* C15: when token.txt is absent or gives no account, run_node returns right
\* after the load, without entering its loop, and no heartbeat, node-list
\* fetch, probe, report or score fetch is ever issued.
C15_NoAccountsNoRun ==
    (pc # "start" /\ (~token_file.exists \/ token_email_mapping = <<>>))
        => (pc = "returned" /\ now = 0 /\ NothingIssued)

\* run_node has returned because token.txt is absent
C15_Witness ==
    /\ pc = "returned"
    /\ ~token_file.exists
    /\ token_email_mapping = <<>>

\* ---- C16
\* a line has exactly two comma-separated fields when it holds one comma
WellFormed(line) == Cardinality({q \in 1..Len(line) : line[q] = Comma}) = 1

\* the (token, label) pair of a well-formed line: what stands before and after
\* its comma, without the white space around the line
PairOf(line) ==
    LET t == strip(line)
        c == CHOOSE q \in 1..Len(t) : t[q] = Comma
    IN <<SubSeq(t, 1, c - 1), SubSeq(t, c + 1, Len(t))>>

\* the positions of the well-formed lines of token.txt
WellFormedAt == {q \in 1..Len(token_file.lines) : WellFormed(token_file.lines[q])}

\* the pairs of the mapping returned by the load
Loaded == {token_email_mapping[q] : q \in 1..Len(token_email_mapping)}

\* C16 as stated: the load never raises, and the mapping it returns holds
\* exactly the (token, label) pairs of the lines that have two fields.
C16_ExactlyWellFormedPairs ==
    (pc # "start" /\ token_file.exists)
        => /\ pc # "raised"
           /\ Loaded = {PairOf(token_file.lines[q]) : q \in WellFormedAt}

\* C16, amended: the load never raises; the mapping it returns holds one pair
\* per token of the well-formed lines, with the label of the last well-formed
\* line that carries the token, and nothing of any other line.
C16_LastLabelPerToken ==
    (pc # "start" /\ token_file.exists)
        => /\ pc # "raised"
           /\ Loaded = {PairOf(token_file.lines[q]) :
                           q \in {q \in WellFormedAt :
                                    \A r \in WellFormedAt :
                                        (r > q) => PairOf(token_file.lines[r])[1]
                                                    # PairOf(token_file.lines[q])[1]}}
           /\ Cardinality(Loaded) = Len(token_email_mapping)
           /\ \A q, r \in 1..Len(token_email_mapping) :
                (q # r) => token_email_mapping[q][1] # token_email_mapping[r][1]

\* a malformed line is followed by two well-formed lines of the same token
\* and different labels, and the load has kept one pair
C16_Witness ==
    /\ pc = "loop"
    /\ Len(token_file.lines) = 3
    /\ ~WellFormed(token_file.lines[1])
    /\ Cardinality(WellFormedAt) = 2
    /\ Len(token_email_mapping) = 1
    /\ \E q, r \in WellFormedAt :
        PairOf(token_file.lines[q])[2] # PairOf(token_file.lines[r])[2]

\* ---- C17
\* C17: when the node-list fetch of an account's cycle succeeded, the score
\* fetch of that account starts only when every probe of the cycle has
\* finished and the report of every probed node has been sent and has
\* returned; it is made once per account and round, before the cycle of the
\* next account starts, and the score is shown only when the fetch gave one.
C17_CycleOrder ==
    /\ (pc = "points" /\ nodes_fetch = "ok")
            => /\ orphans[i] = 0
               /\ reports_sent = probes_started
               /\ reports_in_flight = 0
    /\ pc = "points" => (points_fetched = 0 /\ test_calls[i] = 1)
    /\ InTestCycle => \A a \in Accounts : (a > i) => test_calls[a] = 0
    /\ points_fetched <= 1
    /\ displayed <= 1
    /\ displayed = 1 => score # None

\* ---- C18
\* C18: every result tuple a probe of test_all_nodes returns is tagged online
\* exactly when the probe got an answer of status 200, and carries the
\* latency -1 exactly when it is tagged offline.
C18_ProbeResult ==
    pc = "gather" =>
        \A j \in 1..Len(probe) :
            probe[j].state = "done" =>
                /\ probe[j].ret[4] \in {"online", "offline"}
                /\ probe[j].ret[4] = "online" <=> probe_status[j] = 200
                /\ probe[j].ret[3] = -1 <=> probe[j].ret[4] = "offline"

\* both probes of a cycle have returned: one got a 200, the other a 500
C18_Witness ==
    /\ pc = "gather"
    /\ Len(probe) = 2
    /\ GatherDone
    /\ probe_status = <<200, 500>>
    /\ probe[1].ret[4] = "online"
    /\ probe[2].ret = <<2, 102, -1, "offline">>

\* ---- C19
\* C19: whatever order the probes of a cycle completed in, the results that
\* test_all_nodes returns stand in the order of the node list, and the
\* reports of the cycle are sent in that order, the report of node j before
\* the report of node j + 1.
C19_NodeListOrder ==
    InReporter =>
        /\ Len(results) = Len(nodes)
        /\ \A j \in 1..Len(results) :
            /\ results[j][1] = nodes[j].node_id
            /\ results[j][2] = nodes[j].ip
        /\ Len(posted) = k - 1
        /\ \A q \in 1..Len(posted) : posted[q][1] = nodes[q].node_id

\* the second probe completed before the first; the report of the first node
\* has returned and the report of the second is under way
C19_Witness ==
    /\ pc = "report_post"
    /\ reordered
    /\ Len(nodes) = 2
    /\ k = 2
    /\ posted[1][1] = nodes[1].node_id

\* ---- C20
\* the steps that start a round
HeartbeatRoundStarts == pc = "loop" /\ pc' = "hb_loop"
TestRoundStarts == pc = "test_check" /\ pc' = "test_loop"

\* within one round a task is attempted at most once per account
OncePerAccount ==
    \A a \in 1..MaxAccounts : hb_calls[a] <= 1 /\ test_calls[a] <= 1

\* C20 as stated: a heartbeat round starts at least 300s after the start of
\* the heartbeat round before it, a test round starts at least 1800s after
\* the start of the test round before it, and within one round a task is
\* attempted at most once per account.
C20_RoundStartsApart ==
    /\ [][(HeartbeatRoundStarts /\ last_heartbeat_start # NoRound)
            => now' >= last_heartbeat_start + HEARTBEAT_INTERVAL]_vars
    /\ [][(TestRoundStarts /\ last_test_tick # NoRound)
            => now' >= last_test_tick + last_test_lag + TEST_INTERVAL]_vars
    /\ []OncePerAccount

\* C20, amended: a heartbeat round starts at least 300s after the start of
\* the heartbeat round before it; a test round starts in a tick whose
\* current_time is at least 1800s after the current_time of the tick of the
\* test round before it; within one round a task is attempted at most once per
\* account.
C20_TicksApart ==
    /\ [][(HeartbeatRoundStarts /\ last_heartbeat_start # NoRound)
            => now' >= last_heartbeat_start + HEARTBEAT_INTERVAL]_vars
    /\ [][(TestRoundStarts /\ last_test_tick # NoRound)
            => /\ current_time >= last_test_tick + TEST_INTERVAL
               /\ last_test_tick' = current_time]_vars
    /\ []OncePerAccount

\* the second test round has started, 1800s after the first tick, whose test
\* round had started after its heartbeat round had taken some time
C20_Witness ==
    /\ pc = "test_loop"
    /\ i = 1
    /\ last_test_tick = TEST_INTERVAL
    /\ now = TEST_INTERVAL
    /\ last_heartbeat_start < TEST_INTERVAL
    /\ last_heartbeat_start >= TEST_INTERVAL - HEARTBEAT_INTERVAL - TIMEOUT

\* ---- C13
\* C13: without an interrupt, and with every request answering or failing
\* within its timeout, run_node never ends: every tick reaches the sleep
\* and the sleep is followed by the next tick, and for every account the
\* heartbeat is attempted again and again, and so is the test cycle.
C13_Forever ==
    /\ (pc = "loop") ~> (pc = "sleep")
    /\ (pc = "sleep") ~> (pc = "loop")
    /\ \A a \in 1..MaxAccounts :
        /\ []<>(a > Len(token_file.lines) \/ (pc = "get_ip" /\ i = a))
        /\ []<>(a > Len(token_file.lines) \/ (pc = "nodes_get" /\ i = a))

\* the test cycle of the last account is attempted in a tick after the first
C13_Witness ==
    /\ pc = "nodes_get"
    /\ slept
    /\ i = Len(tokens)
    /\ i = MaxAccounts
    /\ now = 0

================================================================================
